---- MODULE Spec2Model ----
(***************************************************************************)
(* A model of the enet-rs safe wrapper layer: Address (address.rs),        *)
(* Packet and PacketMode (packet.rs) and Host (host.rs).  The transport    *)
(* engine (the C library behind enet_sys) is an external collaborator; its *)
(* calls are modelled by what the wrapper relies on.                       *)
(*                                                                         *)
(* The three source files are independent of each other, so each has its   *)
(* own specification over the shared variable tuple: SpecAddress,          *)
(* SpecPacket, SpecService, SpecTable and SpecKeepAlive.                   *)
(***************************************************************************)
EXTENDS Integers, Sequences, FiniteSets

VARIABLES
    \* ---- address.rs
    bigEndian,    \* the build target's byte order (what u32::to_be depends on)
    a_orig,       \* the value the current conversion chain started from
    a_addr,       \* the current Address, or NoValue
    a_native,     \* the current ENetAddress, or NoValue
    a_steps,      \* the conversions applied to a_orig so far
    \* ---- packet.rs
    heap,         \* the engine's packet storage: buffer id -> ENetPacket
    pkts,         \* the Packet values of this layer: packet id -> Packet
    p_last,       \* what the last Packet call returned
    \* ---- host.rs: service, check_events
    ready,        \* the engine's events waiting to be dispatched, oldest first
    detected,     \* every event the engine has made ready so far, in order
    delivered,    \* every event a call has returned to the caller, in order
    s_last,       \* the last polling call: the engine's result and what came back
    \* ---- host.rs: channel limit, peer table
    channelLimit, \* (*self.inner).channelLimit
    peerCount,    \* (*self.inner).peerCount
    limitSet,     \* the ChannelLimit last given to set_channel_limit
    t_last,       \* the last call on the table or the limit, and its result
    \* ---- host.rs: Host::new, Drop for Host, and the keep-alive guard
    kaCount,      \* the process-wide keep-alive count
    engineState,  \* the engine's global state: uninitialized, initialized, deinitialized
    engineHosts,  \* the engine host resources that exist (created, not destroyed)
    hostPc,       \* where each Host is in its life
    hosts,        \* the Host values: inner and _keep_alive
    dropAt        \* how many steps of its destruction each Host has done

addressVars == <<bigEndian, a_orig, a_addr, a_native, a_steps>>

packetVars == <<heap, pkts, p_last>>

serviceVars == <<ready, detected, delivered, s_last>>

tableVars == <<channelLimit, peerCount, limitSet, t_last>>

keepAliveVars == <<kaCount, engineState, engineHosts, hostPc, hosts, dropAt>>

vars == <<addressVars, packetVars, serviceVars, tableVars, keepAliveVars>>

notAddressVars == <<packetVars, serviceVars, tableVars, keepAliveVars>>

notPacketVars == <<addressVars, serviceVars, tableVars, keepAliveVars>>

notServiceVars == <<addressVars, packetVars, tableVars, keepAliveVars>>

notTableVars == <<addressVars, packetVars, serviceVars, keepAliveVars>>

notKeepAliveVars == <<addressVars, packetVars, serviceVars, tableVars>>

NoValue == [kind |-> "none"]

(***************************************************************************)
(*                              address.rs                                 *)
(***************************************************************************)

\* Octet values the inputs are drawn from: both extremes and one between, so
\* that the order of the octets in an address is visible.
ByteSamples == {0, 127, 255}

PortSamples == {0, 65535}

\* An Ipv4Addr is its four octets in textual order: a.b.c.d is <<a, b, c, d>>.
Ipv4Addrs == {<<a, b, c, d>> : a \in ByteSamples, b \in ByteSamples,
                               c \in ByteSamples, d \in ByteSamples}

\* A u32 is held as its four base-256 digits, least significant first:
\* <<b0, b1, b2, b3>> is the number b0 + 2^8 b1 + 2^16 b2 + 2^24 b3.
U32s == Ipv4Addrs

\* (x >> (8 * k)) as u8
ShrAsU8(x, k) == x[k + 1]

\* u32::swap_bytes
swap_bytes(x) == <<x[4], x[3], x[2], x[1]>>

\* u32::to_be: "On big endian this is a no-op. On little endian the bytes are
\* swapped."
to_be(x) == IF bigEndian THEN x ELSE swap_bytes(x)

\* (&octets as &[u8]).read_u32::<NetworkEndian>(): the first octet is the most
\* significant digit, whatever the target.
read_u32_NetworkEndian(octets) == <<octets[4], octets[3], octets[2], octets[1]>>

\* Address::new
AddressNew(ip, port) == [kind |-> "addr", ip |-> ip, port |-> port]

ENetAddress(host, port) == [kind |-> "native", host |-> host, port |-> port]

\* Address::to_enet_address
to_enet_address(self) ==
    ENetAddress(to_be(read_u32_NetworkEndian(self.ip)), self.port)

\* Address::from_enet_address
from_enet_address(addr) ==
    AddressNew(<<ShrAsU8(addr.host, 0), ShrAsU8(addr.host, 1),
                 ShrAsU8(addr.host, 2), ShrAsU8(addr.host, 3)>>,
               addr.port)

Addresses == {AddressNew(ip, p) : ip \in Ipv4Addrs, p \in PortSamples}

Natives == {ENetAddress(h, p) : h \in U32s, p \in PortSamples}

\* The address variables of a specification that converts no address.
AddressIdle ==
    /\ bigEndian = FALSE
    /\ a_orig = NoValue
    /\ a_addr = NoValue
    /\ a_native = NoValue
    /\ a_steps = <<>>

AddressInit ==
    /\ bigEndian \in BOOLEAN
    /\ a_orig = NoValue
    /\ a_addr = NoValue
    /\ a_native = NoValue
    /\ a_steps = <<>>

\* The caller makes an Address (Address::new).
TakeAddress ==
    \E a \in Addresses :
        /\ a_orig' = a
        /\ a_addr' = a
        /\ a_native' = NoValue
        /\ a_steps' = <<>>
        /\ UNCHANGED <<bigEndian, notAddressVars>>

\* The engine hands out a native address (host.address, an event's peer).
TakeNative ==
    \E n \in Natives :
        /\ a_orig' = n
        /\ a_native' = n
        /\ a_addr' = NoValue
        /\ a_steps' = <<>>
        /\ UNCHANGED <<bigEndian, notAddressVars>>

ToEnetAddress ==
    /\ a_addr # NoValue
    /\ a_steps \in {<<>>, <<"from">>}
    /\ a_native' = to_enet_address(a_addr)
    /\ a_steps' = Append(a_steps, "to")
    /\ UNCHANGED <<bigEndian, a_orig, a_addr, notAddressVars>>

FromEnetAddress ==
    /\ a_native # NoValue
    /\ a_steps \in {<<>>, <<"to">>}
    /\ a_addr' = from_enet_address(a_native)
    /\ a_steps' = Append(a_steps, "from")
    /\ UNCHANGED <<bigEndian, a_orig, a_native, notAddressVars>>

AddressNext ==
    \/ TakeAddress
    \/ TakeNative
    \/ ToEnetAddress
    \/ FromEnetAddress

(***************************************************************************)
(*                               packet.rs                                 *)
(***************************************************************************)

\* How many Packets a run makes.
MaxPackets == 2

PktIds == 1..MaxPackets

\* One engine buffer per Packet made.
BufIds == 1..MaxPackets

\* The byte strings packets are made of: the empty one, and two of the same
\* bytes in different order.
DataSamples == {<<>>, <<7, 9>>, <<9, 7>>}

PacketModes == {"UnreliableSequenced", "UnreliableUnsequenced", "ReliableSequenced"}

\* _ENetPacketFlag_ENET_PACKET_FLAG_UNSEQUENCED as u32 = 1 << 1
UNSEQUENCED_FLAG == 2

\* _ENetPacketFlag_ENET_PACKET_FLAG_RELIABLE as u32 = 1 << 0
RELIABLE_FLAG == 1

\* The flags the engine puts on a packet it received: the three a sender can
\* ask for, and ENET_PACKET_FLAG_UNRELIABLE_FRAGMENT (1 << 3), which the
\* engine sets itself on a reassembled unreliable packet.
EngineFlags == {0, RELIABLE_FLAG, UNSEQUENCED_FLAG, 8}

Panic == "panic"

\* A mode encoding that sends two variants to one flag value.
to_sys_flags_collide(self) ==
    CASE self = "UnreliableSequenced" -> 0
      [] self = "UnreliableUnsequenced" -> RELIABLE_FLAG
      [] self = "ReliableSequenced" -> RELIABLE_FLAG

\* PacketMode::to_sys_flags
to_sys_flags(self) ==
    CASE self = "UnreliableSequenced" -> 0
      [] self = "UnreliableUnsequenced" -> UNSEQUENCED_FLAG
      [] self = "ReliableSequenced" -> RELIABLE_FLAG

\* PacketMode::from_sys_flags: the arms are tried in order; any other value
\* panics ("Invalid sysflag").
from_sys_flags(sys_flags) ==
    IF sys_flags = 0 THEN "UnreliableSequenced"
    ELSE IF sys_flags = UNSEQUENCED_FLAG THEN "UnreliableUnsequenced"
    ELSE IF sys_flags = RELIABLE_FLAG THEN "ReliableSequenced"
    ELSE Panic

NoBuf == [state |-> "unused", data |-> <<>>, flags |-> 0, destroys |-> 0]

\* A Packet is its inner pointer.  The other fields are the history the
\* properties below speak of: how it was made (new, copy, sys), the mode
\* Packet::new was asked for, the packet it is a copy of, and the bytes and
\* flags its buffer held when it was made.
NoPkt == [state |-> "none", inner |-> 0, made |-> "none", mode |-> "none",
          of |-> 0, bytes |-> <<>>, flags0 |-> 0]

\* The buffer the engine's allocator hands out next.
FreshBuf(h) == CHOOSE b \in BufIds : h[b].state = "unused" /\
                   \A c \in BufIds : h[c].state = "unused" => b <= c

\* The packet id the next Packet value gets.
FreshPkt(ps) == CHOOSE p \in PktIds : ps[p].state = "none" /\
                    \A q \in PktIds : ps[q].state = "none" => p <= q

\* enet_packet_create(data, len, flags): a null pointer (0) when the engine
\* cannot allocate, else a new buffer holding a copy of the bytes, tagged
\* with the flags.
enet_packet_create(h, d, f, ok) ==
    IF ok
    THEN [ptr |-> FreshBuf(h),
          heap |-> [h EXCEPT ![FreshBuf(h)] =
                       [state |-> "live", data |-> d, flags |-> f, destroys |-> 0]]]
    ELSE [ptr |-> 0, heap |-> h]

\* enet_packet_destroy(packet): this layer releases the buffer; what it held
\* is gone.
enet_packet_destroy(h, b) ==
    [h EXCEPT ![b] = [state |-> "freed", data |-> <<>>, flags |-> 0,
                      destroys |-> @.destroys + 1]]

\* Packet::from_sys_packet
from_sys_packet(inner) == [NoPkt EXCEPT !.state = "owned", !.inner = inner]

\* Packet::data
data(h, self) == h[self.inner].data

\* Packet::packet_mode
packet_mode(h, self) == from_sys_flags(h[self.inner].flags)

\* Packet::new: Err(Error(0)) on a null pointer, else the Packet.
Packet_new(h, d, mode, ok) ==
    LET res == enet_packet_create(h, d, to_sys_flags(mode), ok)
    IN  IF res.ptr = 0
        THEN [result |-> "err", code |-> 0, heap |-> res.heap, packet |-> NoPkt]
        ELSE [result |-> "ok", code |-> 0, heap |-> res.heap,
              packet |-> from_sys_packet(res.ptr)]

\* A copy that wraps the other packet's buffer instead of making a new one.
Packet_copy_shallow(h, other_packet, ok) ==
    [result |-> "ok", code |-> 0, heap |-> h,
     packet |-> from_sys_packet(other_packet.inner)]

\* Packet::copy: packet_mode() is evaluated first and may panic.
Packet_copy(h, other_packet, ok) ==
    IF packet_mode(h, other_packet) = Panic
    THEN [result |-> Panic, code |-> 0, heap |-> h, packet |-> NoPkt]
    ELSE Packet_new(h, data(h, other_packet), packet_mode(h, other_packet), ok)

\* An into_inner that lets the destructor of self run.
into_inner_dropping(h, self) == enet_packet_destroy(h, self.inner)

\* Packet::into_inner: the heap once the call has returned.  mem::forget(self)
\* keeps the destructor from running, so the buffer is untouched.
into_inner(h, self) == h

\* Drop for Packet
Packet_drop(h, self) == enet_packet_destroy(h, self.inner)

PacketInit ==
    /\ heap = [b \in BufIds |-> NoBuf]
    /\ pkts = [p \in PktIds |-> NoPkt]
    /\ p_last = [op |-> "none", result |-> "none"]

CanMake == \E p \in PktIds : pkts[p].state = "none"

Owned(p) == pkts[p].state = "owned"

\* A Packet value its owner no longer has: moved into the engine, or dropped.
\* Only the buffer it wrapped is remembered.
Gone(how, self) ==
    [NoPkt EXCEPT !.state = how, !.inner = self.inner, !.of = self.of]

\* Records a made Packet, with what it was made from.
Made(res, how, mode, src) ==
    /\ heap' = res.heap
    /\ IF res.result = "ok"
       THEN /\ pkts' = [pkts EXCEPT ![FreshPkt(pkts)] =
                  [res.packet EXCEPT !.made = how, !.mode = mode, !.of = src,
                                     !.bytes = res.heap[res.packet.inner].data,
                                     !.flags0 = res.heap[res.packet.inner].flags]]
            /\ p_last' = [op |-> how, result |-> "ok"]
       ELSE /\ pkts' = pkts
            /\ p_last' = [op |-> how, result |-> res.result]

\* The caller calls Packet::new(data, mode).
PacketNew ==
    /\ CanMake
    /\ \E d \in DataSamples, m \in PacketModes, ok \in BOOLEAN :
           Made(Packet_new(heap, d, m, ok), "new", m, 0)
    /\ UNCHANGED notPacketVars

\* The caller calls Packet::copy(&p) on a packet it owns.
PacketCopy ==
    /\ CanMake
    /\ \E p \in PktIds, ok \in BOOLEAN :
           /\ Owned(p)
           /\ Made(Packet_copy(heap, pkts[p], ok), "copy", "none", p)
    /\ UNCHANGED notPacketVars

\* A Received event: the engine made the packet, the event wraps it with
\* Packet::from_sys_packet and gives it to the caller.
PacketReceived ==
    /\ CanMake
    /\ \E d \in DataSamples, f \in EngineFlags :
           LET res == enet_packet_create(heap, d, f, TRUE)
           IN  Made([result |-> "ok", code |-> 0, heap |-> res.heap,
                     packet |-> from_sys_packet(res.ptr)], "sys", "none", 0)
    /\ UNCHANGED notPacketVars

\* The caller reads p.packet_mode().
PacketMode ==
    /\ \E p \in PktIds :
           /\ Owned(p)
           /\ p_last' = [op |-> "packet_mode",
                         result |-> packet_mode(heap, pkts[p])]
    /\ UNCHANGED <<heap, pkts, notPacketVars>>

\* A send: p.into_inner() gives the buffer to the engine.
PacketIntoInner ==
    /\ \E p \in PktIds :
           /\ Owned(p)
           /\ heap' = into_inner(heap, pkts[p])
           /\ pkts' = [pkts EXCEPT ![p] = Gone("moved", pkts[p])]
           /\ p_last' = [op |-> "into_inner", result |-> "ok"]
    /\ UNCHANGED notPacketVars

\* The owner lets go of p: its destructor runs.
PacketDrop ==
    /\ \E p \in PktIds :
           /\ Owned(p)
           /\ heap' = Packet_drop(heap, pkts[p])
           /\ pkts' = [pkts EXCEPT ![p] = Gone("dropped", pkts[p])]
           /\ p_last' = [op |-> "drop", result |-> "ok"]
    /\ UNCHANGED notPacketVars

PacketNext ==
    \/ PacketNew
    \/ PacketCopy
    \/ PacketReceived
    \/ PacketMode
    \/ PacketIntoInner
    \/ PacketDrop

(***************************************************************************)
(*                  host.rs: service and check_events                      *)
(***************************************************************************)

\* How many events the engine detects in a run.
MaxEvents == 3

EventTypes == {"connect", "disconnect", "receive"}

\* The n-th event the engine detects; n tells two events of a type apart.
SysEvent(type, n) == [type |-> type, n |-> n]

\* let mut sys_event: ENetEvent = mem::uninitialized(): what the out-parameter
\* holds when the engine did not write it.
Uninitialized == [type |-> "uninitialized", n |-> 0]

None == [some |-> FALSE]

Some(e) == [some |-> TRUE, event |-> e]

Ok(v) == [kind |-> "Ok", value |-> v]

Err(code) == [kind |-> "Err", code |-> code]

\* c_int values the engine's polling calls return for a fault, and for a
\* dispatched event.
FaultCodes == {-1, -2147483647 - 1}

EventCodes == {1, 2147483647}

\* enet_host_check_events(host, &event): a fault (r < 0), nothing queued
\* (r = 0), or the oldest queued event written to the out-parameter (r > 0).
enet_host_check_events(q, fault, pos) ==
    IF fault < 0 THEN [r |-> fault, event |-> Uninitialized, queue |-> q]
    ELSE IF q = <<>> THEN [r |-> 0, event |-> Uninitialized, queue |-> q]
    ELSE [r |-> pos, event |-> Head(q), queue |-> Tail(q)]

\* enet_host_service(host, &event, timeout): as enet_host_check_events, after
\* the engine has taken in what arrived within the timeout.
enet_host_service(q, arrived, fault, pos) ==
    enet_host_check_events(q \o arrived, fault, pos)

\* Event::from_sys_event: no event for the engine's "none" type, else the
\* event, tied to the host.
from_sys_event(sys_event) ==
    IF sys_event.type = "none" THEN None ELSE Some(sys_event)

\* A match that reports a fault as "no event".
service_swallow(res, sys_event) ==
    IF res > 0 THEN Ok(from_sys_event(sys_event)) ELSE Ok(None)

\* Host::service: the match on the engine's result.
service(res, sys_event) ==
    IF res > 0 THEN Ok(from_sys_event(sys_event))
    ELSE IF res = 0 THEN Ok(None)
    ELSE Err(res)

\* A match that reads the out-parameter only for a result of exactly 1.
check_events_only_one(res, sys_event) ==
    IF res = 1 THEN Ok(from_sys_event(sys_event))
    ELSE IF res >= 0 THEN Ok(None)
    ELSE Err(res)

\* Host::check_events: the match on the engine's result.
check_events(res, sys_event) ==
    IF res > 0 THEN Ok(from_sys_event(sys_event))
    ELSE IF res = 0 THEN Ok(None)
    ELSE Err(res)

ServiceInit ==
    /\ ready = <<>>
    /\ detected = <<>>
    /\ delivered = <<>>
    /\ s_last = [op |-> "none", r |-> 0, result |-> Ok(None)]

\* What a polling call leaves behind: the engine's queue, and the event, if
\* one came back, at the end of what the caller has been given.
Polled(op, eng, result) ==
    /\ ready' = eng.queue
    /\ delivered' = IF result.kind = "Ok" /\ result.value.some
                    THEN Append(delivered, result.value.event)
                    ELSE delivered
    /\ s_last' = [op |-> op, r |-> eng.r, result |-> result]

\* What the engine can take in during one service call: nothing, one more
\* event, or two (it dispatches one per call and queues the rest).
Arrivals ==
    {<<>>} \cup
    (IF Len(detected) + 1 <= MaxEvents
     THEN {<<SysEvent(t, Len(detected) + 1)>> : t \in EventTypes}
     ELSE {}) \cup
    (IF Len(detected) + 2 <= MaxEvents
     THEN {<<SysEvent(t, Len(detected) + 1), SysEvent(u, Len(detected) + 2)>> :
               t \in EventTypes, u \in EventTypes}
     ELSE {})

\* The caller calls host.service(timeout_ms).
Service ==
    /\ \E arrived \in Arrivals, fault \in FaultCodes \cup {0}, pos \in EventCodes :
           LET got == IF fault < 0 THEN <<>> ELSE arrived
               eng == enet_host_service(ready, got, fault, pos)
           IN  /\ detected' = detected \o got
               /\ Polled("service", eng, service(eng.r, eng.event))
    /\ UNCHANGED notServiceVars

\* The caller calls host.check_events().
CheckEvents ==
    /\ \E fault \in FaultCodes \cup {0}, pos \in EventCodes :
           LET eng == enet_host_check_events(ready, fault, pos)
           IN  /\ detected' = detected
               /\ Polled("check_events", eng, check_events(eng.r, eng.event))
    /\ UNCHANGED notServiceVars

ServiceNext ==
    \/ Service
    \/ CheckEvents

(***************************************************************************)
(*               host.rs: channel limit and peer table                     *)
(***************************************************************************)

\* The largest peer table a Host is created with.
MaxPeers == 2

ENET_PROTOCOL_MAXIMUM_CHANNEL_COUNT == 255

Maximum == [limit |-> "Maximum", n |-> 0]

Limited(n) == [limit |-> "Limited", n |-> n]

\* The counts set_channel_limit is called with: 0, the smallest, the values
\* around the engine's maximum, and one far above it.
LimitSamples == {0, 1, 2, 254, 255, 256, 65536}

ChannelLimits == {Maximum} \cup {Limited(n) : n \in LimitSamples}

\* ChannelLimit::to_enet_usize
to_enet_usize(self) == IF self = Maximum THEN 0 ELSE self.n

\* A decoding without the arm for the engine's maximum.
from_enet_usize_no_max(enet_val) ==
    IF enet_val = 0 THEN Panic ELSE Limited(enet_val)

\* ChannelLimit::from_enet_usize: the arm for MAX_COUNT comes first, 0 panics.
from_enet_usize(enet_val) ==
    IF enet_val = ENET_PROTOCOL_MAXIMUM_CHANNEL_COUNT THEN Maximum
    ELSE IF enet_val = 0 THEN Panic
    ELSE Limited(enet_val)

\* enet_host_channel_limit(host, limit): the value the engine stores.  0 and
\* anything above the maximum become the maximum; the smallest count is 1.
enet_host_channel_limit(limit) ==
    IF limit = 0 \/ limit > ENET_PROTOCOL_MAXIMUM_CHANNEL_COUNT
    THEN ENET_PROTOCOL_MAXIMUM_CHANNEL_COUNT
    ELSE limit

\* Host::peer_count
peer_count == peerCount

\* Peer::new(&mut raw_peers[index]): a handle to one slot of the table.
PeerAt(slot) == [kind |-> "Peer", slot |-> slot]

\* An index into the raw table without the slice's bounds check.
get_peer_unchecked(index) == PeerAt(index)

\* Host::get_peer: raw_peers is a slice of peerCount slots, and indexing a
\* slice panics for an index that is not below its length.
get_peer(index) ==
    IF index < peerCount THEN PeerAt(index) ELSE [kind |-> Panic, slot |-> index]

\* The table variables of a specification that does not use the table.
TableIdle ==
    /\ channelLimit = ENET_PROTOCOL_MAXIMUM_CHANNEL_COUNT
    /\ peerCount = 0
    /\ limitSet = NoValue
    /\ t_last = [op |-> "none", arg |-> 0, result |-> NoValue]

\* A Host as created: a table of any size up to MaxPeers.
TableInit ==
    /\ channelLimit = ENET_PROTOCOL_MAXIMUM_CHANNEL_COUNT
    /\ peerCount \in 0..MaxPeers
    /\ limitSet = NoValue
    /\ t_last = [op |-> "none", arg |-> 0, result |-> NoValue]

\* The caller calls host.set_channel_limit(lim).
SetChannelLimit ==
    /\ \E lim \in ChannelLimits :
           /\ channelLimit' = enet_host_channel_limit(to_enet_usize(lim))
           /\ limitSet' = lim
           /\ t_last' = [op |-> "set_channel_limit", arg |-> 0, result |-> NoValue]
    /\ UNCHANGED <<peerCount, notTableVars>>

\* The caller calls host.channel_limit().
ChannelLimit ==
    /\ t_last' = [op |-> "channel_limit", arg |-> 0,
                  result |-> from_enet_usize(channelLimit)]
    /\ UNCHANGED <<channelLimit, peerCount, limitSet, notTableVars>>

\* The caller calls host.get_peer(index).
GetPeer ==
    /\ \E index \in 0..(MaxPeers + 1) :
           t_last' = [op |-> "get_peer", arg |-> index, result |-> get_peer(index)]
    /\ UNCHANGED <<channelLimit, peerCount, limitSet, notTableVars>>

TableNext ==
    \/ SetChannelLimit
    \/ ChannelLimit
    \/ GetPeer

(***************************************************************************)
(*        host.rs: Host::new, Drop for Host; the keep-alive guard          *)
(***************************************************************************)

\* How many Hosts are constructed and destroyed concurrently, each by its own
\* thread.
MaxHosts == 3

HostIds == 1..MaxHosts

NoHost == [inner |-> 0, _keep_alive |-> FALSE]

\* Host::new(_keep_alive, inner): the Host keeps the share it is given and
\* the engine resource (asserted non-null by the caller's guard below).
Host_new(_keep_alive, inner) == [inner |-> inner, _keep_alive |-> _keep_alive]

\* A destruction that lets go of the keep-alive share before the engine host
\* is destroyed.
HostDropSteps_release_first == <<"release", "destroy">>

\* A destruction that never lets go of the keep-alive share.
HostDropSteps_no_release == <<"destroy">>

\* Drop for Host: the body of drop() runs first and destroys the engine
\* host; the fields are dropped after it, which releases _keep_alive.
HostDropSteps == <<"destroy", "release">>

\* Taking a share of the keep-alive: the first one initializes the engine.
KeepAliveTake ==
    /\ kaCount' = kaCount + 1
    /\ engineState' = IF kaCount = 0 THEN "initialized" ELSE engineState

\* Releasing a share of the keep-alive: the last one tears the engine down.
KeepAliveRelease ==
    /\ kaCount' = kaCount - 1
    /\ engineState' = IF kaCount = 1 THEN "deinitialized" ELSE engineState

KeepAliveInit ==
    /\ kaCount = 0
    /\ engineState = "uninitialized"
    /\ engineHosts = {}
    /\ hostPc = [h \in HostIds |-> "none"]
    /\ hosts = [h \in HostIds |-> NoHost]
    /\ dropAt = [h \in HostIds |-> 0]

\* A thread that is about to make a Host takes its share.
TakeShare(h) ==
    /\ hostPc[h] = "none"
    /\ KeepAliveTake
    /\ hostPc' = [hostPc EXCEPT ![h] = "share"]
    /\ UNCHANGED <<engineHosts, hosts, dropAt, notKeepAliveVars>>

\* The engine creates the host resource (resource h for Host h).
EngineHostCreate(h) ==
    /\ hostPc[h] = "share"
    /\ engineHosts' = engineHosts \cup {h}
    /\ hostPc' = [hostPc EXCEPT ![h] = "raw"]
    /\ UNCHANGED <<kaCount, engineState, hosts, dropAt, notKeepAliveVars>>

\* The engine cannot create the host resource: no Host is made, and the
\* share taken for it is given back.
EngineHostCreateFails(h) ==
    /\ hostPc[h] = "share"
    /\ KeepAliveRelease
    /\ hostPc' = [hostPc EXCEPT ![h] = "none"]
    /\ UNCHANGED <<engineHosts, hosts, dropAt, notKeepAliveVars>>

\* Host::new with the share and the non-null engine resource.
HostNew(h) ==
    /\ hostPc[h] = "raw"
    /\ hosts' = [hosts EXCEPT ![h] = Host_new(TRUE, h)]
    /\ hostPc' = [hostPc EXCEPT ![h] = "live"]
    /\ UNCHANGED <<kaCount, engineState, engineHosts, dropAt, notKeepAliveVars>>

\* The next step of the destruction of Host h.
HostDropStep(h) ==
    /\ hostPc[h] \in {"live", "dropping"}
    /\ LET step == HostDropSteps[dropAt[h] + 1]
           last == dropAt[h] + 1 = Len(HostDropSteps)
           after == IF step = "release"
                    THEN [hosts[h] EXCEPT !._keep_alive = FALSE]
                    ELSE hosts[h]
       IN  /\ IF step = "destroy"
              THEN /\ engineHosts' = engineHosts \ {hosts[h].inner}
                   /\ UNCHANGED <<kaCount, engineState>>
              ELSE /\ KeepAliveRelease
                   /\ UNCHANGED engineHosts
           /\ hosts' = [hosts EXCEPT ![h] = IF last THEN NoHost ELSE after]
           /\ hostPc' = [hostPc EXCEPT ![h] = IF last THEN "none" ELSE "dropping"]
           /\ dropAt' = [dropAt EXCEPT ![h] = IF last THEN 0 ELSE @ + 1]
    /\ UNCHANGED notKeepAliveVars

KeepAliveNext ==
    \E h \in HostIds :
        \/ TakeShare(h)
        \/ EngineHostCreate(h)
        \/ EngineHostCreateFails(h)
        \/ HostNew(h)
        \/ HostDropStep(h)

(***************************************************************************)
(*                          The specifications                             *)
(***************************************************************************)

InitAddress ==
    AddressInit /\ PacketInit /\ ServiceInit /\ TableIdle /\ KeepAliveInit

SpecAddress == InitAddress /\ [][AddressNext]_vars

InitPacket ==
    AddressIdle /\ PacketInit /\ ServiceInit /\ TableIdle /\ KeepAliveInit

SpecPacket == InitPacket /\ [][PacketNext]_vars

InitService ==
    AddressIdle /\ PacketInit /\ ServiceInit /\ TableIdle /\ KeepAliveInit

SpecService == InitService /\ [][ServiceNext]_vars

InitTable ==
    AddressIdle /\ PacketInit /\ ServiceInit /\ TableInit /\ KeepAliveInit

SpecTable == InitTable /\ [][TableNext]_vars

InitKeepAlive ==
    AddressIdle /\ PacketInit /\ ServiceInit /\ TableIdle /\ KeepAliveInit

SpecKeepAlive == InitKeepAlive /\ [][KeepAliveNext]_vars

(***************************************************************************)
(*                             The properties                              *)
(***************************************************************************)

\* C1: the outcome of service and check_events is fixed by the engine's
\* result r: r < 0 gives an error carrying exactly r, and no event; r = 0
\* gives "no event"; r > 0 gives Ok with at most one event.
PollOutcomeByResult ==
    s_last.op # "none" =>
        /\ s_last.r < 0 => s_last.result = Err(s_last.r)
        /\ s_last.r = 0 => s_last.result = Ok(None)
        /\ s_last.r > 0 => /\ s_last.result.kind = "Ok"
                           /\ \/ s_last.result.value = None
                              \/ /\ s_last.result.value.some
                                 /\ s_last.result.value.event.type \in EventTypes

\* service came back from an engine fault with the most negative code while
\* an event was waiting.
PollOutcomeByResultWitness ==
    /\ s_last.op = "service"
    /\ s_last.r = -2147483647 - 1
    /\ ready # <<>>

\* C2: the events returned to the caller, in order, followed by those still
\* waiting in the engine, are exactly the events the engine made ready, in
\* order: none is duplicated, dropped or reordered, and a call returns at
\* most one.
EventsInOrder ==
    /\ delivered \o ready = detected
    /\ s_last.result.kind = "Ok" /\ s_last.result.value.some =>
           /\ delivered # <<>>
           /\ delivered[Len(delivered)] = s_last.result.value.event

\* All the events of a run were delivered, through both calls, in more than
\* one type.
EventsInOrderWitness ==
    /\ Len(delivered) = MaxEvents
    /\ delivered[1].type # delivered[2].type
    /\ s_last.op = "check_events"
    /\ s_last.r > 1

\* Whether Host h, or the thread making it, holds a share of the keep-alive.
HoldsShare(h) == hostPc[h] \in {"share", "raw"} \/ hosts[h]._keep_alive

\* C3: the engine is initialized whenever an engine host exists, and a Host
\* holds its keep-alive share for as long as its engine host exists (the
\* engine host is destroyed first, the share released after).
InitBracketsHosts ==
    /\ engineHosts # {} => engineState = "initialized"
    /\ \A h \in HostIds :
           h \in engineHosts => HoldsShare(h)

\* A Host is between the two steps of its destruction: its engine host is
\* gone, its share not yet released; it is the only one left.
InitBracketsHostsWitness ==
    \E h \in HostIds :
        /\ hostPc[h] = "dropping"
        /\ h \notin engineHosts
        /\ hosts[h]._keep_alive
        /\ kaCount = 1

\* C4: under every interleaving the keep-alive count is the number of shares
\* held, one per Host under construction or alive; with no Host left it is
\* zero; and the engine is initialized exactly while the count is not zero.
KeepAliveCountExact ==
    /\ kaCount = Cardinality({h \in HostIds : HoldsShare(h)})
    /\ (\A h \in HostIds : hostPc[h] = "none") => kaCount = 0
    /\ engineState = "initialized" <=> kaCount > 0

\* Every Host has been destroyed and the engine torn down.
KeepAliveCountExactWitness ==
    /\ \A h \in HostIds : hostPc[h] = "none"
    /\ engineState = "deinitialized"

\* The buffer a Packet wraps.
BufOf(p) == heap[pkts[p].inner]

\* C5: this layer releases a Packet's buffer at most once: exactly once for a
\* Packet that was dropped, and never for one whose ownership went to the
\* engine through into_inner (nor while its owner still has it).
PacketReleasedOnce ==
    /\ \A b \in BufIds : heap[b].destroys <= 1
    /\ \A p \in PktIds :
        /\ pkts[p].state = "dropped" => BufOf(p).destroys = 1
        /\ pkts[p].state = "moved" =>
               BufOf(p).destroys = 0 /\ BufOf(p).state = "live"
        /\ pkts[p].state = "owned" => BufOf(p).destroys = 0

\* One Packet was dropped and another was handed to the engine.
PacketReleasedOnceWitness ==
    \E p, q \in PktIds : pkts[p].state = "dropped" /\ pkts[q].state = "moved"

\* C8: a copy c of p has its own buffer, with p's bytes and p's mode; and
\* whatever happens to c, destroying it included, p keeps a live buffer with
\* the bytes and flags it was made with.
PacketCopyIndependent ==
    \A c \in PktIds : pkts[c].of # 0 =>
        LET p == pkts[c].of
        IN  /\ pkts[c].inner # pkts[p].inner
            /\ Owned(c) /\ Owned(p) =>
                   /\ data(heap, pkts[c]) = data(heap, pkts[p])
                   /\ packet_mode(heap, pkts[c]) = packet_mode(heap, pkts[p])
            /\ Owned(p) =>
                   /\ BufOf(p).state = "live"
                   /\ data(heap, pkts[p]) = pkts[p].bytes
                   /\ BufOf(p).flags = pkts[p].flags0

\* A copy of a non-empty packet was made and destroyed, and the original is
\* still owned.
PacketCopyIndependentWitness ==
    \E c \in PktIds :
        /\ pkts[c].of # 0
        /\ pkts[c].state = "dropped"
        /\ Owned(pkts[c].of)
        /\ pkts[pkts[c].of].bytes = <<7, 9>>

\* C9: the flag encoding is one-to-one on the three variants, and decoding
\* the flags of a packet made by Packet::new gives the mode asked for:
\* from_sys_flags(to_sys_flags(m)) = m.
PacketModeRoundTrip ==
    /\ \A p \in PktIds :
           Owned(p) /\ pkts[p].made = "new" =>
               /\ BufOf(p).flags = to_sys_flags(pkts[p].mode)
               /\ packet_mode(heap, pkts[p]) = pkts[p].mode
    /\ \A m1, m2 \in PacketModes :
           to_sys_flags(m1) = to_sys_flags(m2) => m1 = m2

\* packet_mode() was read on a packet made with each of the two non-zero
\* encodings.
PacketModeRoundTripWitness ==
    /\ p_last.op = "packet_mode"
    /\ \E p, q \in PktIds :
           /\ Owned(p) /\ pkts[p].mode = "ReliableSequenced"
           /\ Owned(q) /\ pkts[q].mode = "UnreliableUnsequenced"

\* C6: address conversion round-trips in both directions, for every IPv4
\* address and port: from_enet_address(to_enet_address(a)) = a and
\* to_enet_address(from_enet_address(n)) = n.
AddressRoundTrip ==
    /\ a_steps = <<"to", "from">> => a_addr = a_orig
    /\ a_steps = <<"from", "to">> => a_native = a_orig

\* The round trips of C6 on a little-endian target, where to_be swaps the
\* bytes.
AddressRoundTripLittleEndian == ~bigEndian => AddressRoundTrip

\* C7, as stated: after set_channel_limit(Maximum), channel_limit() reports
\* Maximum; after set_channel_limit(Limited(n)) for any n > 0 it reports
\* Limited(n).
ChannelLimitReadBackAny ==
    t_last.op = "channel_limit" /\ limitSet # NoValue =>
        /\ limitSet = Maximum => t_last.result = Maximum
        /\ limitSet.limit = "Limited" /\ limitSet.n > 0 =>
               t_last.result = limitSet

\* C7, amended: after set_channel_limit(Maximum), channel_limit() reports
\* Maximum; after set_channel_limit(Limited(n)) for any n with
\* 0 < n < ENET_PROTOCOL_MAXIMUM_CHANNEL_COUNT it reports Limited(n).
ChannelLimitReadBack ==
    t_last.op = "channel_limit" /\ limitSet # NoValue =>
        /\ limitSet = Maximum => t_last.result = Maximum
        /\ limitSet.limit = "Limited" /\ limitSet.n > 0
             /\ limitSet.n < ENET_PROTOCOL_MAXIMUM_CHANNEL_COUNT =>
               t_last.result = limitSet

\* The limit was set to Limited(254), the largest count that reads back as
\* itself, and read.
ChannelLimitReadBackWitness ==
    /\ t_last.op = "channel_limit"
    /\ limitSet = Limited(254)
    /\ t_last.result = Limited(254)

\* C10: get_peer(index) gives a handle to slot index whenever index is below
\* peer_count(); for any other index it gives no handle and fails (a panic),
\* so no handle ever points outside the table.
GetPeerInBounds ==
    t_last.op = "get_peer" =>
        /\ t_last.arg < peer_count => t_last.result = PeerAt(t_last.arg)
        /\ t_last.arg >= peer_count => t_last.result.kind = Panic
        /\ t_last.result.kind = "Peer" => t_last.result.slot < peer_count

\* get_peer was called with the index just past a non-empty table.
GetPeerInBoundsWitness ==
    /\ t_last.op = "get_peer"
    /\ peer_count > 0
    /\ t_last.arg = peer_count

====
